---------------------------- MODULE Spec2Model ----------------------------
(***************************************************************************)
(* A model of the summarisation pipeline of summary-LLM:                   *)
(*   summarizer/prompt_builder.py   PromptBuilder (language detection,     *)
(*                                  response parsing)                      *)
(*   summarizer/local_llm.py        LocalLLM (chunk splitting, parallel    *)
(*                                  chunk invocation)                      *)
(*   summarizer/output_formatter.py OutputFormatter (validate, format,     *)
(*                                  save)                                  *)
(*                                                                         *)
(* A Python str is modelled as a sequence of characters; a character is a  *)
(* one-character TLA+ string, and a character outside ASCII is written by  *)
(* its code point ("U+6458").  Each component has its own specification    *)
(* (SpecParse, SpecChunk, SpecGen, SpecBuild, SpecChunkPrompt, SpecOut,    *)
(* SpecSaves, SpecMain); the variables of the other components stay at     *)
(* their idle values.                                                      *)
(***************************************************************************)
EXTENDS Integers, Sequences, FiniteSets, TLC

VARIABLES
    \* ---- PromptBuilder.parse_llm_response
    response,          \* the argument, as response.split('\n'): a non-empty sequence of raw lines
    parse_pc,          \* "idle" | "start" | "scan" | "fallback" | "done" | "raised"
    lang,              \* "" until detected, then "en" | "zh"
    lines,             \* the stripped non-empty lines (line 127)
    line_no,           \* index in lines of the next line of the for loop
    current_section,   \* "None" | "summary" | "conclusion" | "action_items"
    summary,           \* the dict under construction / returned
    conclusion_line    \* history: index of the line stored by line 167 (0: none)

parseVars == <<response, parse_pc, lang, lines, line_no, current_section,
               summary, conclusion_line>>

VARIABLES
    \* ---- LocalLLM._split_into_chunks
    text,              \* the argument
    max_chunk_size,    \* self.max_chunk_size
    chunk_overlap,     \* self.chunk_overlap
    split_pc,          \* "idle" | "start" | "loop" | "done"
    sentences,         \* re.split(...) of text
    sentence_no,       \* index in sentences of the next sentence of the for loop
    chunks,            \* the list of chunk texts under construction / returned
    current_chunk,     \* the sentences of the running chunk, by their index in sentences
    current_size,      \* the accumulated size
    chunk_sentences    \* history: for each chunk of chunks, the indices of its sentences

splitVars == <<text, max_chunk_size, chunk_overlap, split_pc, sentences, sentence_no,
               chunks, current_chunk, current_size, chunk_sentences>>

VARIABLES
    \* ---- LocalLLM.generate_summary
    n_chunks,          \* len(chunks)
    max_workers,       \* self.max_workers
    gen_pc,            \* "idle" | "submit" | "collect" | "shutdown" | "returned"
    submitted,         \* how many chunks executor.submit was called for
    task,              \* per chunk, its future: "unsubmitted" | "queued" | "running" | "done"
    outcome,           \* per chunk, how its external process ended
    collected,         \* the chunks whose future the as_completed loop has taken
    summaries,         \* the list summaries
    gen_result,        \* the value generate_summary returns
    finish_order       \* history: the chunks in the order their invocations completed

genVars == <<n_chunks, max_workers, gen_pc, submitted, task, outcome, collected,
             summaries, gen_result, finish_order>>

VARIABLES
    \* ---- LocalLLM: configuration and process tracking (__init__, cancel_generation)
    timeout,           \* self.timeout (0 means no timeout)
    current_process,   \* self.current_process: NoProcess (None) or the chunk whose process it is
    is_running,        \* self.is_running
    terminated,        \* the chunks whose external process was sent terminate()
    cancel_calls,      \* how many times cancel_generation was called
    in_flight_at_cancel \* history: the chunks whose process was running at a call of
                       \* cancel_generation

llmVars == <<timeout, current_process, is_running, terminated, cancel_calls,
             in_flight_at_cancel>>

VARIABLES
    \* ---- PromptBuilder._detect_language and build_prompt
    transcription,     \* the argument
    build_pc,          \* "idle" | "call" | "returned" | "raised"
    prompt,            \* the str build_prompt returned
    detect_results     \* what successive calls _detect_language(transcription) gave:
                       \* the value returned, or the exception raised

buildVars == <<transcription, build_pc, prompt, detect_results>>

VARIABLES
    \* ---- main (main.py)
    main_pc,           \* "idle" | "initialize" | "extract" | "build" | "generate" | "parse"
                       \* | "output" (validate, format, save: see out_pc) | "exited"
    raw_summary,       \* what generate_summary returned
    exit_code,         \* NotExited until the process ends, then 0 or 1
    stage_log          \* history: the stages called, in order

mainVars == <<main_pc, raw_summary, exit_code, stage_log>>

VARIABLES
    \* ---- OutputFormatter (validate_summary, format_summary, save_summary)
    record,            \* the summary dict handed to validate_summary / format_summary
    url,               \* the source url
    output_dir,        \* self.output_dir
    clock,             \* datetime.now(), in seconds
    out_pc,            \* "idle" | "validate" | "format" | "save" | "read" | "done" | "rejected"
    valid,             \* what validate_summary returned
    formatted_summary, \* what format_summary returned
    filepath,          \* what save_summary returned
    files,             \* the file system: path -> content
    saved_content      \* json.load of the file at filepath

outVars == <<record, url, output_dir, clock, out_pc, valid, formatted_summary,
             filepath, files, saved_content>>

VARIABLES
    \* ---- successive requests on one output directory
    save_log           \* history: for each save_summary call, the path it returned and
                       \* the content it wrote

saveVars == <<save_log>>

VARIABLES
    \* ---- LocalLLM._process_chunk_parallel
    chunk_info,        \* the argument: chunk_index, chunk, is_first, is_last
    chunk_pc,          \* "idle" | "call" | "returned"
    chunk_prompt,      \* the prompt handed to _generate_with_prompt
    chunk_result       \* the tuple returned: (chunk_index, summary)

chunkVars == <<chunk_info, chunk_pc, chunk_prompt, chunk_result>>

vars == <<parseVars, splitVars, genVars, llmVars, buildVars, mainVars, outVars, saveVars,
          chunkVars>>

-----------------------------------------------------------------------------
(* Characters and the str methods the code uses                            *)

\* Code points of the characters outside ASCII that the model uses.
CodePoint ==
    [c \in {"U+6458", "U+8981", "U+9EDE", "U+7D50", "U+8AD6", "U+884C", "U+52D5",
            "U+9805", "U+76EE", "U+8A0E", "U+6A21", "U+FF1A", "U+3002", "U+2022",
            "U+4DFF", "U+4E00", "U+9FFF", "U+A000"} |->
        CASE c = "U+6458" -> 25688  [] c = "U+8981" -> 35201  [] c = "U+9EDE" -> 40670
          [] c = "U+7D50" -> 32080  [] c = "U+8AD6" -> 35542  [] c = "U+884C" -> 34892
          [] c = "U+52D5" -> 21205  [] c = "U+9805" -> 38917  [] c = "U+76EE" -> 30446
          [] c = "U+8A0E" -> 35342  [] c = "U+6A21" -> 27169  [] c = "U+FF1A" -> 65306
          [] c = "U+3002" -> 12290  [] c = "U+2022" -> 8226
          [] c = "U+4DFF" -> 19967  [] c = "U+4E00" -> 19968  [] c = "U+9FFF" -> 40959
          [] c = "U+A000" -> 40960]

\* '\u4e00' <= char <= '\u9fff'; every ASCII character is below U+4E00.
IsChinese(c) ==
    /\ c \in DOMAIN CodePoint
    /\ 19968 <= CodePoint[c]
    /\ CodePoint[c] <= 40959

Uppers == <<"A","B","C","D","E","F","G","H","I","J","K","L","M",
            "N","O","P","Q","R","S","T","U","V","W","X","Y","Z">>
Lowers == <<"a","b","c","d","e","f","g","h","i","j","k","l","m",
            "n","o","p","q","r","s","t","u","v","w","x","y","z">>

IsLetter(c) == \E i \in 1..Len(Uppers) : c = Uppers[i] \/ c = Lowers[i]

LowerChar(c) ==
    IF \E i \in 1..Len(Uppers) : Uppers[i] = c
    THEN Lowers[CHOOSE i \in 1..Len(Uppers) : Uppers[i] = c]
    ELSE c

\* str.lower()
Lower(s) == [i \in 1..Len(s) |-> LowerChar(s[i])]

\* str.isspace() for the characters of the model
IsSpace(c) == c \in {" ", "\t", "\n", "\r"}

\* s[from:] (1-based, from may be Len(s)+1)
Drop(s, from) == SubSeq(s, from, Len(s))

RECURSIVE LStrip(_, _)
\* str.lstrip(chars): drop leading characters while they are in chars
LStrip(s, chars) ==
    IF s # <<>> /\ Head(s) \in chars THEN LStrip(Tail(s), chars) ELSE s

RECURSIVE RStrip(_, _)
RStrip(s, chars) ==
    IF s # <<>> /\ s[Len(s)] \in chars THEN RStrip(SubSeq(s, 1, Len(s) - 1), chars) ELSE s

Whitespace == {" ", "\t", "\n", "\r"}

\* str.strip()
Strip(s) == RStrip(LStrip(s, Whitespace), Whitespace)

\* str.startswith(p)
StartsWith(s, p) == Len(p) <= Len(s) /\ SubSeq(s, 1, Len(p)) = p

\* sub in s
Contains(s, sub) ==
    \E i \in 1..(Len(s) - Len(sub) + 1) : SubSeq(s, i, i + Len(sub) - 1) = sub

RECURSIVE JoinWith(_, _)
\* sep.join(parts)
JoinWith(parts, sep) ==
    IF parts = <<>> THEN <<>>
    ELSE IF Len(parts) = 1 THEN parts[1]
    ELSE parts[1] \o sep \o JoinWith(Tail(parts), sep)

RECURSIVE SelectNonBlank(_)
\* [line.strip() for line in raw if line.strip()]
SelectNonBlank(raw) ==
    IF raw = <<>> THEN <<>>
    ELSE IF Strip(Head(raw)) # <<>>
         THEN <<Strip(Head(raw))>> \o SelectNonBlank(Tail(raw))
         ELSE SelectNonBlank(Tail(raw))

Last(s) == s[Len(s)]

-----------------------------------------------------------------------------
(* PromptBuilder (summarizer/prompt_builder.py)                            *)

\* _detect_language: the quotient chinese_chars / len(text) > 0.3 is compared
\* exactly (10 * chinese_chars > 3 * len(text)); len(text) = 0 raises.
ChineseChars(t) == Cardinality({i \in 1..Len(t) : IsChinese(t[i])})

\* a variant that takes a ratio of exactly 0.3 for Chinese
detect_language_at_least(t) ==
    IF Len(t) = 0 THEN "ZeroDivisionError"
    ELSE IF 10 * ChineseChars(t) >= 3 * Len(t) THEN "zh"
    ELSE "en"

detect_language(t) ==
    IF Len(t) = 0 THEN "ZeroDivisionError"
    ELSE IF 10 * ChineseChars(t) > 3 * Len(t) THEN "zh"
    ELSE "en"

\* The header vocabularies (lines 132-139).
summary_headers(l) ==
    IF l = "en" THEN {<<"s","u","m","m","a","r","y",":">>}
    ELSE {<<"U+6458","U+8981","U+8981","U+9EDE">>, <<"U+8981","U+9EDE">>}

conclusion_headers(l) ==
    IF l = "en" THEN {<<"c","o","n","c","l","u","s","i","o","n",":">>}
    ELSE {<<"U+7D50","U+8AD6">>}

action_headers(l) ==
    IF l = "en" THEN {<<"a","c","t","i","o","n"," ","i","t","e","m","s",":">>}
    ELSE {<<"U+884C","U+52D5","U+9805","U+76EE">>, <<"U+884C","U+52D5">>}

\* any(header in line.lower() for header in headers)
AnyHeaderIn(headers, line) == \E header \in headers : Contains(Lower(line), header)

\* line 158: line.startswith(("=== Model", "You are", "Please", "IMPORTANT"))
NoisePrefixes ==
    { <<"=","=","="," ","M","o","d","e","l">>,
      <<"Y","o","u"," ","a","r","e">>,
      <<"P","l","e","a","s","e">>,
      <<"I","M","P","O","R","T","A","N","T">> }

IsNoise(line) == \E p \in NoisePrefixes : StartsWith(line, p)

\* lines 163 and 169: line.startswith(("*", "-", "\u2022", "1.", "2.", "3."))
ContentMarkers ==
    { <<"*">>, <<"-">>, <<"U+2022">>, <<"1", ".">>, <<"2", ".">>, <<"3", ".">> }

\* a variant that accepts bullets only
IsContentBulletsOnly(line) ==
    \E m \in {<<"*">>, <<"-">>, <<"U+2022">>} : StartsWith(line, m)

IsContent(line) == \E m \in ContentMarkers : StartsWith(line, m)

\* lines 164 and 170: line.lstrip("*\u2022-123. ")
MarkerChars == {"*", "U+2022", "-", "1", "2", "3", ".", " "}

\* a variant that leaves the blank after the ordinal in place
StripMarkerKeepBlank(line) == LStrip(line, MarkerChars \ {" "})

StripMarker(line) == LStrip(line, MarkerChars)

EmptySummary == [summary |-> <<>>, conclusion |-> <<>>, action_items |-> <<>>]

\* a variant that defaults to the first summary point
FallbackFirst(s) ==
    IF s.conclusion = <<>> /\ s.summary # <<>>
    THEN [s EXCEPT !.conclusion = Head(s.summary)]
    ELSE s

\* lines 172-174: if no conclusion was found, use the last summary point
Fallback(s) ==
    IF s.conclusion = <<>> /\ s.summary # <<>>
    THEN [s EXCEPT !.conclusion = Last(s.summary)]
    ELSE s

\* a variant that stores every line met in the conclusion section
ScanStepLastConclusion(line, l, st) ==
    IF AnyHeaderIn(summary_headers(l), line) THEN [st EXCEPT !.section = "summary"]
    ELSE IF AnyHeaderIn(conclusion_headers(l), line) THEN [st EXCEPT !.section = "conclusion"]
    ELSE IF AnyHeaderIn(action_headers(l), line) THEN [st EXCEPT !.section = "action_items"]
    ELSE IF IsNoise(line) THEN st
    ELSE IF st.section = "summary" THEN
        IF IsContent(line)
        THEN [st EXCEPT !.summary.summary = Append(@, StripMarker(line))]
        ELSE st
    ELSE IF st.section = "conclusion" THEN
        [st EXCEPT !.summary.conclusion = line, !.stored = TRUE]
    ELSE IF st.section = "action_items" THEN
        IF IsContent(line)
        THEN [st EXCEPT !.summary.action_items = Append(@, StripMarker(line))]
        ELSE st
    ELSE st

\* One iteration of the for loop (lines 141-170) on `line` with the loop's
\* state st = [section, summary, stored]; stored is the history flag of line 167.
ScanStep(line, l, st) ==
    IF AnyHeaderIn(summary_headers(l), line) THEN [st EXCEPT !.section = "summary"]
    ELSE IF AnyHeaderIn(conclusion_headers(l), line) THEN [st EXCEPT !.section = "conclusion"]
    ELSE IF AnyHeaderIn(action_headers(l), line) THEN [st EXCEPT !.section = "action_items"]
    ELSE IF IsNoise(line) THEN st
    ELSE IF st.section = "summary" THEN
        IF IsContent(line)
        THEN [st EXCEPT !.summary.summary = Append(@, StripMarker(line))]
        ELSE st
    ELSE IF st.section = "conclusion" THEN
        IF st.summary.conclusion = <<>>
        THEN [st EXCEPT !.summary.conclusion = line, !.stored = TRUE]
        ELSE st
    ELSE IF st.section = "action_items" THEN
        IF IsContent(line)
        THEN [st EXCEPT !.summary.action_items = Append(@, StripMarker(line))]
        ELSE st
    ELSE st

-----------------------------------------------------------------------------
(* The responses parse_llm_response is applied to                          *)

MaxLines == 3
MaxItems == 2

SeqsUpTo(S, n) == UNION {[1..k -> S] : k \in 0..n}

HdrSummary    == <<"U+6458","U+8981","U+8981","U+9EDE","U+FF1A">>
HdrConclusion == <<"U+7D50","U+8AD6","U+FF1A">>
HdrAction     == <<"U+884C","U+52D5","U+9805","U+76EE","U+FF1A">>

\* numbered items: "1. <tao><lun>", "2. R1 <mo>", "3.<mo><lun>"
ItemPool ==
    { <<"1", ".", " ", "U+8A0E", "U+8AD6">>,
      <<"2", ".", " ", "R", "1", " ", "U+6A21">>,
      <<"3", ".", "U+6A21", "U+8AD6">> }

\* lines that follow a conclusion header: plain text, text that opens with a
\* noise prefix, text that holds the header word of another section
ConclusionPool ==
    { <<"U+8A0E", "U+8AD6", "U+6A21", "U+3002">>,
      <<"P","l","e","a","s","e"," ","U+8A0E","U+8AD6">>,
      <<"U+8A0E", "U+8AD6", "U+884C", "U+52D5">> }

\* raw lines of the unstructured responses
RawPool ==
    { <<>>, <<" ">>,
      HdrSummary, HdrConclusion, HdrAction,
      <<" ", "1", ".", " ", "U+8A0E", "U+8AD6", " ">>,
      <<"-", " ", "U+6A21">>,
      <<"4", ".", " ", "U+6A21">>,
      <<"U+8A0E", "U+8AD6", "U+6A21", "U+3002">>,
      <<"S","u","m","m","a","r","y",":">>,
      <<"1", ".", " ", "a">>,
      <<"2", ".", " ", "3", " ", "a">>,
      <<"-", " ", "-", "a">>,
      <<"3", ".">>,
      <<"P","l","e","a","s","e"," ","U+7D50","U+8AD6">>,
      <<"-", " ", "U+7D50", "U+8AD6">>,
      <<"o", "k">> }

Section(header, body) == {<<>>} \cup {<<header>> \o b : b \in body}

\* header-led responses: each of the three sections is absent or is its header
\* followed by its lines
StructuredResponses ==
    { s \o c \o a :
        s \in Section(HdrSummary, SeqsUpTo(ItemPool, MaxItems)),
        c \in Section(HdrConclusion, SeqsUpTo(ConclusionPool, 1)),
        a \in Section(HdrAction, SeqsUpTo(ItemPool, MaxItems)) } \ {<<>>}

Responses ==
    StructuredResponses \cup UNION {[1..k -> RawPool] : k \in 1..MaxLines}

\* the str the raw lines come from
Text(raw) == JoinWith(raw, <<"\n">>)

ParseIdle ==
    /\ response = <<>>
    /\ parse_pc = "idle"
    /\ lang = ""
    /\ lines = <<>>
    /\ line_no = 0
    /\ current_section = "None"
    /\ summary = EmptySummary
    /\ conclusion_line = 0

ParseInit ==
    /\ response \in Responses
    /\ parse_pc = "start"
    /\ lang = ""
    /\ lines = <<>>
    /\ line_no = 0
    /\ current_section = "None"
    /\ summary = EmptySummary
    /\ conclusion_line = 0

\* lines 115-139: detect the language (the except clause re-raises), split the lines
ParseStart ==
    /\ parse_pc = "start"
    /\ LET l == detect_language(Text(response)) IN
        IF l = "ZeroDivisionError"
        THEN /\ parse_pc' = "raised"
             /\ UNCHANGED <<lang, lines, line_no>>
        ELSE /\ parse_pc' = "scan"
             /\ lang' = l
             /\ lines' = SelectNonBlank(response)
             /\ line_no' = 1
    /\ UNCHANGED <<response, current_section, summary, conclusion_line>>

\* lines 141-170: one iteration of the loop
ScanLine ==
    /\ parse_pc = "scan"
    /\ line_no <= Len(lines)
    /\ LET st == ScanStep(lines[line_no], lang,
                          [section |-> current_section, summary |-> summary, stored |-> FALSE])
       IN /\ current_section' = st.section
          /\ summary' = st.summary
          /\ conclusion_line' = IF st.stored THEN line_no ELSE conclusion_line
    /\ line_no' = line_no + 1
    /\ UNCHANGED <<response, parse_pc, lang, lines>>

\* lines 172-176: the loop is over; default the conclusion and return
ParseReturn ==
    /\ parse_pc = "scan"
    /\ line_no > Len(lines)
    /\ summary' = Fallback(summary)
    /\ parse_pc' = "done"
    /\ UNCHANGED <<response, lang, lines, line_no, current_section, conclusion_line>>


-----------------------------------------------------------------------------
(* Properties of parse_llm_response                                        *)

HeaderWords(l) == summary_headers(l) \cup conclusion_headers(l) \cup action_headers(l)

HasHeaderWord(l, line) == AnyHeaderIn(HeaderWords(l), line)

\* a header line: the header word, alone or followed by a colon
IsHeaderLine(word, line) == line \in {word, word \o <<":">>, word \o <<"U+FF1A">>}

SummaryHeaderWord(l) ==
    IF l = "en" THEN <<"s","u","m","m","a","r","y">>
    ELSE <<"U+6458","U+8981","U+8981","U+9EDE">>

\* the text of a numbered line: the ordinal "n." and the blanks after it removed
ItemText(line) == LStrip(Drop(line, 3), {" "})

\* a line numbered 1. to 3. whose text starts with a letter or a CJK character
\* and contains no header word
IsNumberedItem(l, line) ==
    /\ \E n \in {"1", "2", "3"} : StartsWith(line, <<n, ".">>)
    /\ ItemText(line) # <<>>
    /\ IsLetter(Head(ItemText(line))) \/ IsChinese(Head(ItemText(line)))
    /\ ~HasHeaderWord(l, line)

ItemTexts(ls) == [i \in 1..Len(ls) |-> ItemText(ls[i])]

\* C2's shape at conclusion header c: summary header, numbered lines, conclusion
\* header, one conclusion line, action-items header, numbered lines
FullShapeAt(ls, c) ==
    /\ IsHeaderLine(<<"U+6458","U+8981","U+8981","U+9EDE">>, ls[1])
    /\ \A i \in 2..(c - 1) : IsNumberedItem("zh", ls[i])
    /\ IsHeaderLine(<<"U+7D50","U+8AD6">>, ls[c])
    /\ IsHeaderLine(<<"U+884C","U+52D5","U+9805","U+76EE">>, ls[c + 2])
    /\ \A i \in (c + 3)..Len(ls) : IsNumberedItem("zh", ls[i])

FullShape(ls) == \E c \in 2..(Len(ls) - 2) : FullShapeAt(ls, c)

ConclusionHeaderAt(ls) == CHOOSE c \in 2..(Len(ls) - 2) : FullShapeAt(ls, c)

ExpectedFull(ls) ==
    LET c == ConclusionHeaderAt(ls) IN
    [summary |-> ItemTexts(SubSeq(ls, 2, c - 1)),
     conclusion |-> ls[c + 1],
     action_items |-> ItemTexts(SubSeq(ls, c + 3, Len(ls)))]

\* the conclusion line read as one more item: it starts with a letter or a CJK
\* character and contains no header word
ConclusionLikeItem(line) ==
    /\ IsLetter(Head(line)) \/ IsChinese(Head(line))
    /\ ~HasHeaderWord("zh", line)

\* C1 (as claimed): parse_llm_response("") does not raise and returns
\* {summary: [], conclusion: "", action_items: []}.
C1_EmptyResponseReturnsEmptyRecord ==
    response = << <<>> >> =>
        /\ parse_pc # "raised"
        /\ parse_pc = "done" => summary = EmptySummary

\* C2 (as claimed): a response detected as Chinese of the shape summary header,
\* numbered lines, conclusion header, one conclusion line, action-items header,
\* numbered lines parses to the items in input order without their ordinals and
\* the conclusion line.
C2_FullResponseAsClaimed ==
    (/\ parse_pc = "done"
     /\ lang = "zh"
     /\ FullShape(lines)
     /\ ConclusionLikeItem(lines[ConclusionHeaderAt(lines) + 1]))
        => summary = ExpectedFull(lines)

\* C2 (amended): the same, for a conclusion line that contains no header word
\* and does not start with a noise prefix.
C2_FullResponseParsed ==
    (/\ parse_pc = "done"
     /\ lang = "zh"
     /\ FullShape(lines)
     /\ ~HasHeaderWord("zh", lines[ConclusionHeaderAt(lines) + 1])
     /\ ~IsNoise(lines[ConclusionHeaderAt(lines) + 1]))
        => summary = ExpectedFull(lines)

C2_Witness ==
    /\ parse_pc = "done"
    /\ lang = "zh"
    /\ FullShape(lines)
    /\ ~HasHeaderWord("zh", lines[ConclusionHeaderAt(lines) + 1])
    /\ ~IsNoise(lines[ConclusionHeaderAt(lines) + 1])
    /\ Len(summary.summary) = 2
    /\ summary.summary[1] # summary.summary[2]
    /\ Len(summary.action_items) = 2
    /\ summary.conclusion = lines[ConclusionHeaderAt(lines) + 1]

SummaryOnly(l, ls) ==
    /\ ls # <<>>
    /\ IsHeaderLine(SummaryHeaderWord(l), Lower(ls[1]))
    /\ \A i \in 2..Len(ls) : IsNumberedItem(l, ls[i])

SummaryBody(l, ls) ==
    /\ ls # <<>>
    /\ IsHeaderLine(SummaryHeaderWord(l), Lower(ls[1]))
    /\ \A i \in 2..Len(ls) : ~HasHeaderWord(l, ls[i]) /\ ~IsNoise(ls[i])

\* the markers of a content line: a bullet or an ordinal 1. to 5.
ListMarkers ==
    { <<"*">>, <<"-">>, <<"U+2022">> } \cup { <<n, ".">> : n \in {"1", "2", "3", "4", "5"} }

BeginsWithMarker(line) == \E m \in ListMarkers : StartsWith(line, m)

\* the line without its leading marker and the white space after the marker
MarkerRemoved(line) ==
    LET m == CHOOSE m \in ListMarkers : StartsWith(line, m)
    IN LStrip(Drop(line, Len(m) + 1), Whitespace)

\* C19: of the lines met in the summary section, those stored are exactly the
\* lines that begin with a bullet or an ordinal 1. to 5.
C19_MarkedLinesStored ==
    (parse_pc = "done" /\ SummaryBody(lang, lines)) =>
        Len(summary.summary) =
            Cardinality({i \in 2..Len(lines) : BeginsWithMarker(lines[i])})

\* C20: a stored line is stored as the line without its leading marker and the
\* white space after it, the rest unchanged.
C20_OnlyMarkerRemoved ==
    (parse_pc = "done" /\ SummaryBody(lang, lines)
     /\ \A i \in 2..Len(lines) : IsContent(lines[i])) =>
        summary.summary = [k \in 1..(Len(lines) - 1) |-> MarkerRemoved(lines[k + 1])]

\* C21: the summary and the action items of a returned record hold no empty string.
C21_NoEmptyEntries ==
    parse_pc = "done" =>
        /\ \A k \in 1..Len(summary.summary) : summary.summary[k] # <<>>
        /\ \A k \in 1..Len(summary.action_items) : summary.action_items[k] # <<>>

\* the loop is about to take lines[line_no]
AtLine == parse_pc = "scan" /\ line_no <= Len(lines) /\ line_no' = line_no + 1

\* C22: a line that starts with a noise prefix changes neither the record nor
\* the current section.
C22_NoiseLineDiscarded ==
    [][(AtLine /\ IsNoise(lines[line_no])) =>
            (summary' = summary /\ current_section' = current_section)]_vars

\* the section a header line names; "" for a line that holds no header word
HeaderSection(l, line) ==
    IF AnyHeaderIn(summary_headers(l), line) THEN "summary"
    ELSE IF AnyHeaderIn(conclusion_headers(l), line) THEN "conclusion"
    ELSE IF AnyHeaderIn(action_headers(l), line) THEN "action_items"
    ELSE ""

RECURSIVE SectionBefore(_, _, _)
\* the current section when line i is met: that of the last header line before it
SectionBefore(l, ls, i) ==
    IF i = 1 THEN "None"
    ELSE IF HeaderSection(l, ls[i - 1]) # "" THEN HeaderSection(l, ls[i - 1])
    ELSE SectionBefore(l, ls, i - 1)

\* the non-header, non-noise lines among the first n met in a conclusion section
ConclusionLines(l, ls, n) ==
    { i \in 1..n : /\ SectionBefore(l, ls, i) = "conclusion"
                   /\ HeaderSection(l, ls[i]) = ""
                   /\ ~IsNoise(ls[i]) }

Min(S) == CHOOSE x \in S : \A y \in S : x <= y

C28_ContentLineIsNotHeader ==
    [][(AtLine /\ current_section \in {"summary", "action_items"}
        /\ IsContent(lines[line_no]) /\ ~IsNoise(lines[line_no])) =>
            /\ current_section' = current_section
            /\ Len(summary'[current_section]) = Len(summary[current_section]) + 1]_vars

-----------------------------------------------------------------------------
(* LocalLLM._split_into_chunks (summarizer/local_llm.py)                   *)

\* the character class [.!?]
IsTerminator(c) == c \in {".", "!", "?"}

\* the first index i where text[i] is in [.!?] and white space follows; 0 if none
FirstBoundary(t) ==
    IF \E i \in 1..(Len(t) - 1) : IsTerminator(t[i]) /\ IsSpace(t[i + 1])
    THEN CHOOSE i \in 1..(Len(t) - 1) :
            /\ IsTerminator(t[i]) /\ IsSpace(t[i + 1])
            /\ \A j \in 1..(i - 1) : ~(IsTerminator(t[j]) /\ IsSpace(t[j + 1]))
    ELSE 0

RECURSIVE SplitSentences(_)
\* re.split(r'(?<=[.!?])\s+', text): the white space run after a terminator
\* separates two sentences and belongs to neither
SplitSentences(t) ==
    LET b == FirstBoundary(t) IN
    IF b = 0 THEN <<t>>
    ELSE <<SubSeq(t, 1, b)>> \o SplitSentences(LStrip(Drop(t, b + 1), Whitespace))

RECURSIVE TotalLen(_, _)
\* the sum of len(s) over the sentences ids
TotalLen(sents, ids) ==
    IF ids = <<>> THEN 0 ELSE Len(sents[Head(ids)]) + TotalLen(sents, Tail(ids))

\* a variant that keeps at most the last sentence
OverlapLastOnly(sents, chunk, budget) ==
    IF chunk # <<>> /\ Len(sents[Last(chunk)]) <= budget THEN <<Last(chunk)>> ELSE <<>>

RECURSIVE Overlap(_, _, _)
\* lines 177-184: the sentences kept for overlap, taken from the end of the
\* closed chunk while their sizes fit in budget
Overlap(sents, chunk, budget) ==
    IF chunk = <<>> THEN <<>>
    ELSE IF Len(sents[Last(chunk)]) <= budget
         THEN Overlap(sents, SubSeq(chunk, 1, Len(chunk) - 1),
                      budget - Len(sents[Last(chunk)])) \o <<Last(chunk)>>
         ELSE <<>>

\* ' '.join(current_chunk)
ChunkText(sents, chunk) == JoinWith([i \in 1..Len(chunk) |-> sents[chunk[i]]], <<" ">>)

\* a variant of the loop body that appends the sentence only when no chunk is closed
AddSentenceElse(st, sents, i, max, ovl) ==
    IF st.size + Len(sents[i]) > max /\ st.chunk # <<>>
    THEN [chunks |-> Append(st.chunks, ChunkText(sents, st.chunk)),
          ids    |-> Append(st.ids, st.chunk),
          chunk  |-> Overlap(sents, st.chunk, ovl),
          size   |-> TotalLen(sents, Overlap(sents, st.chunk, ovl))]
    ELSE [st EXCEPT !.chunk = Append(@, i), !.size = @ + Len(sents[i])]

\* lines 170-189: one iteration of the for loop on sentence i, with the loop's
\* state st = [chunks, ids, chunk, size]
AddSentence(st, sents, i, max, ovl) ==
    LET closes == st.size + Len(sents[i]) > max /\ st.chunk # <<>>
        kept == Overlap(sents, st.chunk, ovl)
        base == IF closes
                THEN [chunks |-> Append(st.chunks, ChunkText(sents, st.chunk)),
                      ids    |-> Append(st.ids, st.chunk),
                      chunk  |-> kept,
                      size   |-> TotalLen(sents, kept)]
                ELSE st
    IN [base EXCEPT !.chunk = Append(@, i), !.size = @ + Len(sents[i])]

MaxSentences == 4
ChunkSizeLimit == 5
OverlapLimit == 4

\* sentences of 1, 2 and 4 characters, each closed by a terminator
SentencePool == { <<".">>, <<"a", "!">>, <<"a", "a", "a", ".">> }

\* what separates two sentences, and what ends the text
Separators == { <<" ">>, <<" ", "\n">> }
Endings == { <<>>, <<"a", "a">>, <<" ">> }

Texts ==
    { JoinWith(ss, sep) \o end :
        ss \in UNION {[1..k -> SentencePool] : k \in 0..MaxSentences},
        sep \in Separators, end \in Endings }

SplitIdle ==
    /\ text = <<>>
    /\ max_chunk_size = 0
    /\ chunk_overlap = 0
    /\ split_pc = "idle"
    /\ sentences = <<>>
    /\ sentence_no = 0
    /\ chunks = <<>>
    /\ current_chunk = <<>>
    /\ current_size = 0
    /\ chunk_sentences = <<>>

SplitInit ==
    /\ text \in Texts
    /\ max_chunk_size \in 0..ChunkSizeLimit
    /\ chunk_overlap \in 0..OverlapLimit
    /\ split_pc = "start"
    /\ sentences = <<>>
    /\ sentence_no = 0
    /\ chunks = <<>>
    /\ current_chunk = <<>>
    /\ current_size = 0
    /\ chunk_sentences = <<>>

\* lines 164-168
SplitStart ==
    /\ split_pc = "start"
    /\ sentences' = SplitSentences(text)
    /\ sentence_no' = 1
    /\ split_pc' = "loop"
    /\ UNCHANGED <<text, max_chunk_size, chunk_overlap, chunks, current_chunk,
                   current_size, chunk_sentences>>

\* lines 170-189
SplitStep ==
    /\ split_pc = "loop"
    /\ sentence_no <= Len(sentences)
    /\ LET st == AddSentence([chunks |-> chunks, ids |-> chunk_sentences,
                              chunk |-> current_chunk, size |-> current_size],
                             sentences, sentence_no, max_chunk_size, chunk_overlap)
       IN /\ chunks' = st.chunks
          /\ chunk_sentences' = st.ids
          /\ current_chunk' = st.chunk
          /\ current_size' = st.size
    /\ sentence_no' = sentence_no + 1
    /\ UNCHANGED <<text, max_chunk_size, chunk_overlap, split_pc, sentences>>

\* lines 191-195: add the last chunk if it is not empty, return
SplitReturn ==
    /\ split_pc = "loop"
    /\ sentence_no > Len(sentences)
    /\ IF current_chunk # <<>>
       THEN /\ chunks' = Append(chunks, ChunkText(sentences, current_chunk))
            /\ chunk_sentences' = Append(chunk_sentences, current_chunk)
       ELSE UNCHANGED <<chunks, chunk_sentences>>
    /\ split_pc' = "done"
    /\ UNCHANGED <<text, max_chunk_size, chunk_overlap, sentences, sentence_no,
                   current_chunk, current_size>>

-----------------------------------------------------------------------------
(* Properties of _split_into_chunks                                        *)

RECURSIVE DropWhileIn(_, _)
\* chunk without its leading sentences that are sentences of the previous chunk
DropWhileIn(chunk, prev) ==
    IF chunk # <<>> /\ \E j \in 1..Len(prev) : prev[j] = Head(chunk)
    THEN DropWhileIn(Tail(chunk), prev)
    ELSE chunk

RECURSIVE ConcatStripped(_, _)
\* the chunks from k on, each without its overlap, concatenated
ConcatStripped(cs, k) ==
    IF k > Len(cs) THEN <<>>
    ELSE DropWhileIn(cs[k], IF k = 1 THEN <<>> ELSE cs[k - 1]) \o ConcatStripped(cs, k + 1)

\* C5: the returned chunks, overlaps removed and concatenated in order, are
\* the sentences of the text, each once and in order; and each returned chunk
\* text is its sentences joined by a blank.
C5_ChunksReconstructSentences ==
    split_pc = "done" =>
        /\ ConcatStripped(chunk_sentences, 1) = [i \in 1..Len(sentences) |-> i]
        /\ Len(chunks) = Len(chunk_sentences)
        /\ \A k \in 1..Len(chunks) : chunks[k] = ChunkText(sentences, chunk_sentences[k])

C5_Witness ==
    /\ split_pc = "done"
    /\ Len(sentences) = 4
    /\ Len(chunks) = 3
    /\ \E k \in 2..3 : Len(chunk_sentences[k]) > Len(DropWhileIn(chunk_sentences[k], chunk_sentences[k - 1]))
    /\ ConcatStripped(chunk_sentences, 1) = <<1, 2, 3, 4>>

\* C6 (as claimed): every returned chunk text is at most max_chunk_size long,
\* unless the chunk is one sentence that alone is longer than max_chunk_size.
C6_ChunkSizeBounded ==
    split_pc = "done" =>
        \A k \in 1..Len(chunks) :
            \/ Len(chunks[k]) <= max_chunk_size
            \/ /\ Len(chunk_sentences[k]) = 1
               /\ Len(sentences[chunk_sentences[k][1]]) > max_chunk_size

\* C17: a sentence longer than max_chunk_size is alone in every chunk that holds
\* it, and the text of that chunk is the sentence.
C17_OversizeSentenceAlone ==
    split_pc = "done" =>
        \A k \in 1..Len(chunks) :
            \A m \in 1..Len(chunk_sentences[k]) :
                Len(sentences[chunk_sentences[k][m]]) > max_chunk_size =>
                    /\ Len(chunk_sentences[k]) = 1
                    /\ chunks[k] = sentences[chunk_sentences[k][m]]

\* the last m sentences of chunk
Suffix(chunk, m) == SubSeq(chunk, Len(chunk) - m + 1, Len(chunk))

\* how many sentences the longest suffix of chunk of total length at most budget has
LongestFit(sents, chunk, budget) ==
    CHOOSE m \in 0..Len(chunk) :
        /\ TotalLen(sents, Suffix(chunk, m)) <= budget
        /\ \A n \in (m + 1)..Len(chunk) : TotalLen(sents, Suffix(chunk, n)) > budget

\* C24: every chunk after the first starts with the longest suffix of the
\* sentences of the chunk before it whose total length is at most chunk_overlap,
\* in their order, followed by the sentence that caused the close; and the chunk
\* before it had content and that sentence would have taken its accumulated size
\* over max_chunk_size.
C24_OverlapIsLongestFittingSuffix ==
    \A k \in 2..Len(chunk_sentences) :
        LET closed == chunk_sentences[k - 1]
            next == Last(closed) + 1
            m == LongestFit(sentences, closed, chunk_overlap)
        IN /\ closed # <<>>
           /\ TotalLen(sentences, closed) + Len(sentences[next]) > max_chunk_size
           /\ Len(chunk_sentences[k]) > m
           /\ SubSeq(chunk_sentences[k], 1, m + 1) = Suffix(closed, m) \o <<next>>

C24_Witness ==
    /\ split_pc = "done"
    /\ max_chunk_size = 5
    /\ chunk_overlap = 3
    /\ \E k \in 2..Len(chunk_sentences) :
            /\ Len(chunk_sentences[k - 1]) = 3
            /\ LongestFit(sentences, chunk_sentences[k - 1], chunk_overlap) = 2
            /\ SubSeq(chunk_sentences[k], 1, 3) = <<2, 3, 4>>

-----------------------------------------------------------------------------
(* LocalLLM.generate_summary (summarizer/local_llm.py)                     *)

\* Optional[str]
None == [is_none |-> TRUE, str |-> <<>>]
Some(s) == [is_none |-> FALSE, str |-> s]

\* the truth value of an Optional[str]: neither None nor ""
Truthy(v) == ~v.is_none /\ v.str # <<>>

\* where the match of <\|.*?\|> that starts at the head of s ends; 0 if none
SpecialEnd(s) ==
    IF Len(s) >= 4 /\ s[1] = "<" /\ s[2] = "|"
       /\ \E j \in 3..(Len(s) - 1) :
            /\ s[j] = "|" /\ s[j + 1] = ">"
            /\ \A k \in 3..(j - 1) : s[k] # "\n"
    THEN 1 + CHOOSE j \in 3..(Len(s) - 1) :
            /\ s[j] = "|" /\ s[j + 1] = ">"
            /\ \A k \in 3..(j - 1) : s[k] # "\n"
            /\ \A i \in 3..(j - 1) : ~(s[i] = "|" /\ s[i + 1] = ">")
    ELSE 0

RECURSIVE RemoveSpecial(_)
\* line 323: re.sub(r'<\|.*?\|>', '', summary)
RemoveSpecial(s) ==
    IF s = <<>> THEN <<>>
    ELSE IF SpecialEnd(s) > 0 THEN RemoveSpecial(Drop(s, SpecialEnd(s) + 1))
    ELSE <<Head(s)>> \o RemoveSpecial(Tail(s))

\* the length of the run of newlines at the head of s
RECURSIVE NewlineRun(_)
NewlineRun(s) == IF s # <<>> /\ Head(s) = "\n" THEN 1 + NewlineRun(Tail(s)) ELSE 0

RECURSIVE CollapseNewlines(_)
\* line 332: re.sub(r'\n{3,}', '\n\n', final_summary)
CollapseNewlines(s) ==
    IF s = <<>> THEN <<>>
    ELSE IF NewlineRun(s) >= 3 THEN <<"\n", "\n">> \o CollapseNewlines(Drop(s, NewlineRun(s) + 1))
    ELSE <<Head(s)>> \o CollapseNewlines(Tail(s))

\* lines 321-323
Clean(s) == RemoveSpecial(Strip(s))

RECURSIVE FilterNone(_)
\* filter(None, summaries): the entries that are neither None nor ""
FilterNone(l) ==
    IF l = <<>> THEN <<>>
    ELSE IF Truthy(Head(l)) THEN <<Head(l).str>> \o FilterNone(Tail(l))
    ELSE FilterNone(Tail(l))

\* lines 331-332
Combine(l) == CollapseNewlines(JoinWith(FilterNone(l), <<"\n", "\n">>))

\* _generate_with_prompt (lines 233-278) on how the external process ended:
\* a launch failure raises and is caught (None), a non-zero exit returns None,
\* otherwise stdout.strip()
generate_with_prompt(o) ==
    IF o.kind = "ok" THEN Some(Strip(o.stdout)) ELSE None

\* a variant of the loop body that stores in completion order
CollectInArrivalOrder(l, done, i, o) ==
    LET r == generate_with_prompt(o) IN
    IF Truthy(r)
    THEN [summaries |-> [l EXCEPT ![Cardinality(done) + 1] = Some(Clean(r.str))], failed |-> FALSE]
    ELSE [summaries |-> l, failed |-> TRUE]

\* a variant of the loop body that skips a failed chunk
CollectSkipFailed(l, done, i, o) ==
    LET r == generate_with_prompt(o) IN
    IF Truthy(r)
    THEN [summaries |-> [l EXCEPT ![i] = Some(Clean(r.str))], failed |-> FALSE]
    ELSE [summaries |-> l, failed |-> FALSE]

\* lines 318-328: the body of the as_completed loop for the future of chunk i,
\* whose process ended as o; `done` are the chunks taken before
Collect(l, done, i, o) ==
    LET r == generate_with_prompt(o) IN
    IF Truthy(r)
    THEN [summaries |-> [l EXCEPT ![i] = Some(Clean(r.str))], failed |-> FALSE]
    ELSE [summaries |-> l, failed |-> TRUE]

MaxChunks == 3
MaxWorkersLimit == 2

\* what the external process can print
StdoutPool ==
    { <<"a">>,
      <<"b", "\n">>,
      <<"<", "|", "e", "|", ">", "\n", "c">>,
      <<"<", "|", "e", "|", ">">>,
      <<" ">> }

Outcomes ==
    { [kind |-> "launch_failed", stdout |-> <<>>],
      [kind |-> "nonzero", stdout |-> <<>>] }
    \cup { [kind |-> "ok", stdout |-> s] : s \in StdoutPool }

Pending == [kind |-> "pending", stdout |-> <<>>]

GenIdle ==
    /\ n_chunks = 0
    /\ max_workers = 0
    /\ gen_pc = "idle"
    /\ submitted = 0
    /\ task = <<>>
    /\ outcome = <<>>
    /\ collected = {}
    /\ summaries = <<>>
    /\ gen_result = None
    /\ finish_order = <<>>

\* lines 299-311: the chunks are split, summaries = [None] * len(chunks), the
\* executor is created
GenInit ==
    /\ n_chunks \in 1..MaxChunks
    /\ max_workers \in 1..MaxWorkersLimit
    /\ gen_pc = "submit"
    /\ submitted = 0
    /\ task = [i \in 1..n_chunks |-> "unsubmitted"]
    /\ outcome = [i \in 1..n_chunks |-> Pending]
    /\ collected = {}
    /\ summaries = [i \in 1..n_chunks |-> None]
    /\ gen_result = None
    /\ finish_order = <<>>

Running == {i \in 1..n_chunks : task[i] = "running"}

\* lines 312-315: executor.submit for the next chunk
GenSubmit ==
    /\ gen_pc = "submit"
    /\ submitted < n_chunks
    /\ task' = [task EXCEPT ![submitted + 1] = "queued"]
    /\ submitted' = submitted + 1
    /\ gen_pc' = IF submitted + 1 = n_chunks THEN "collect" ELSE "submit"
    /\ UNCHANGED <<n_chunks, max_workers, outcome, collected, summaries, gen_result,
                   finish_order>>

\* a variant in which every queued work item gets a thread at once
WorkerStartUnbounded(i) ==
    /\ task[i] = "queued"
    /\ task' = [task EXCEPT ![i] = "running"]
    /\ UNCHANGED <<n_chunks, max_workers, gen_pc, submitted, outcome, collected,
                   summaries, gen_result, finish_order>>

\* ThreadPoolExecutor(max_workers): a free worker takes the oldest queued work
\* item and calls _process_chunk_parallel (line 220: the external process starts)
WorkerStart(i) ==
    /\ task[i] = "queued"
    /\ \A j \in 1..(i - 1) : task[j] # "queued"
    /\ Cardinality(Running) < max_workers
    /\ task' = [task EXCEPT ![i] = "running"]
    /\ UNCHANGED <<n_chunks, max_workers, gen_pc, submitted, outcome, collected,
                   summaries, gen_result, finish_order>>

\* lines 251-270: the external process of chunk i ends as o, the future completes
WorkerFinish(i, o) ==
    /\ task[i] = "running"
    /\ task' = [task EXCEPT ![i] = "done"]
    /\ outcome' = [outcome EXCEPT ![i] = o]
    /\ finish_order' = Append(finish_order, i)
    /\ UNCHANGED <<n_chunks, max_workers, gen_pc, submitted, collected, summaries,
                   gen_result>>

\* lines 317-328: as_completed yields the completed future of chunk i
GenCollect(i) ==
    /\ gen_pc = "collect"
    /\ task[i] = "done"
    /\ i \notin collected
    /\ LET c == Collect(summaries, collected, i, outcome[i]) IN
        /\ summaries' = c.summaries
        /\ gen_pc' = IF c.failed THEN "shutdown" ELSE "collect"
    /\ collected' = collected \cup {i}
    /\ UNCHANGED <<n_chunks, max_workers, submitted, task, outcome, gen_result,
                   finish_order>>

\* line 328 inside the with block of line 311: return None leaves the block,
\* whose exit waits for every submitted work item (shutdown(wait=True))
GenReturnNone ==
    /\ gen_pc = "shutdown"
    /\ \A i \in 1..n_chunks : task[i] = "done"
    /\ gen_result' = None
    /\ gen_pc' = "returned"
    /\ UNCHANGED <<n_chunks, max_workers, submitted, task, outcome, collected,
                   summaries, finish_order>>

\* lines 330-338: every future was taken; combine and return
GenReturn ==
    /\ gen_pc = "collect"
    /\ collected = 1..n_chunks
    /\ gen_result' = Some(Combine(summaries))
    /\ gen_pc' = "returned"
    /\ UNCHANGED <<n_chunks, max_workers, submitted, task, outcome, collected,
                   summaries, finish_order>>

MaxTimeout == 1
MaxCancels == 1

\* self.current_process = None
NoProcess == 0

\* a LocalLLM none of whose methods is called
LLMIdle ==
    /\ timeout = 0
    /\ current_process = NoProcess
    /\ is_running = FALSE
    /\ terminated = {}
    /\ cancel_calls = 0
    /\ in_flight_at_cancel = {}

\* __init__ (lines 24, 33-34): the timeout comes from the environment
LLMInit ==
    /\ timeout \in 0..MaxTimeout
    /\ current_process = NoProcess
    /\ is_running = FALSE
    /\ terminated = {}
    /\ cancel_calls = 0
    /\ in_flight_at_cancel = {}

\* cancel_generation (lines 143-152), called from another thread
cancel_generation ==
    /\ gen_pc \in {"submit", "collect", "shutdown", "returned"}
    /\ cancel_calls < MaxCancels
    /\ cancel_calls' = cancel_calls + 1
    /\ in_flight_at_cancel' = in_flight_at_cancel \cup Running
    /\ IF is_running /\ current_process # NoProcess
       THEN /\ terminated' = terminated \cup {current_process}
            /\ is_running' = FALSE
            /\ current_process' = NoProcess
       ELSE UNCHANGED <<terminated, is_running, current_process>>
    /\ UNCHANGED timeout

-----------------------------------------------------------------------------
(* Properties of generate_summary                                          *)

\* the invocation of chunk i failed: launch failure, non-zero exit or empty output
ChunkFailed(i) ==
    \/ outcome[i].kind \in {"launch_failed", "nonzero"}
    \/ outcome[i].kind = "ok" /\ Strip(outcome[i].stdout) = <<>>

\* the output of chunk i, as the loop stores it
ChunkOutput(i) == RemoveSpecial(Strip(outcome[i].stdout))

RECURSIVE JoinAscending(_, _)
\* the non-empty chunk outputs from chunk i on, in ascending chunk-index order,
\* two newlines between them
JoinAscending(i, n) ==
    IF i > n THEN <<>>
    ELSE LET rest == JoinAscending(i + 1, n) IN
         IF ChunkOutput(i) = <<>> THEN rest
         ELSE IF rest = <<>> THEN ChunkOutput(i)
         ELSE ChunkOutput(i) \o <<"\n", "\n">> \o rest

\* C7: when every chunk succeeds, the returned text is the chunk outputs joined
\* in ascending chunk-index order (runs of newlines collapsed), whatever the
\* order of completion.
C7_ResultInChunkOrder ==
    (gen_pc = "returned" /\ \A i \in 1..n_chunks : ~ChunkFailed(i)) =>
        gen_result = Some(CollapseNewlines(JoinAscending(1, n_chunks)))

C7_Witness ==
    /\ gen_pc = "returned"
    /\ n_chunks = 3
    /\ max_workers = 2
    /\ \A i \in 1..n_chunks : ~ChunkFailed(i)
    /\ finish_order = <<2, 3, 1>>
    /\ ChunkOutput(1) = <<"a">>
    /\ ChunkOutput(2) = <<"b">>
    /\ ChunkOutput(3) = <<"\n", "c">>
    /\ gen_result = Some(<<"a", "\n", "\n", "b", "\n", "\n", "c">>)

\* C8: if the invocation of any chunk failed, generate_summary returns None,
\* whatever the order of completion.
C8_AnyFailureReturnsNone ==
    (gen_pc = "returned" /\ \E i \in 1..n_chunks : ChunkFailed(i)) =>
        gen_result = None

C8_Witness ==
    /\ gen_pc = "returned"
    /\ n_chunks = 3
    /\ ChunkFailed(1)
    /\ ~ChunkFailed(2) /\ ~ChunkFailed(3)
    /\ finish_order = <<2, 1, 3>>
    /\ collected = {1, 2}
    /\ Truthy(summaries[2])
    /\ gen_result = None

\* C11: a chunk whose external process was in flight when cancel_generation was
\* called has had that process terminated.
C11_CancelTerminatesInFlight == in_flight_at_cancel \subseteq terminated

\* C16: at any moment at most max_workers chunk invocations are running.
C16_AtMostMaxWorkersRunning == Cardinality(Running) <= max_workers

C16_Witness ==
    /\ n_chunks = 3
    /\ max_workers = 2
    /\ Cardinality(Running) = 2
    /\ \E i \in 1..n_chunks : task[i] = "queued"

\* C18: once the loop has seen a failed chunk, generate_summary can return at
\* once, whatever invocations are still running or queued.
C18_FailureReturnsWithoutWaiting ==
    gen_pc = "shutdown" => ENABLED GenReturnNone

\* C12: with a timeout greater than 0, generate_summary eventually returns, even
\* if an external process never exits.
C12_TimeoutEventuallyReturns == (timeout > 0) => <>(gen_pc = "returned")

-----------------------------------------------------------------------------
(* PromptBuilder._detect_language and build_prompt                         *)

\* self.system_prompts (lines 12-35): each instruction template is a fixed text,
\* written here as one symbol
SystemPromptEn == <<"system_prompts[en]">>
SystemPromptZh == <<"system_prompts[zh]">>

system_prompts(l) == IF l = "en" THEN SystemPromptEn ELSE SystemPromptZh

ImStart ==
    <<"<", "|", "i", "m", "_", "s", "t", "a", "r", "t", "|", ">">>

ImEnd ==
    <<"<", "|", "i", "m", "_", "e", "n", "d", "|", ">">>

RoleSystem == <<"s", "y", "s", "t", "e", "m">>
RoleUser == <<"u", "s", "e", "r">>
RoleAssistant == <<"a", "s", "s", "i", "s", "t", "a", "n", "t">>

\* line 76
UserIntroEn ==
    <<"P", "l", "e", "a", "s", "e", " ", "s", "u", "m", "m", "a", "r", "i", "z", "e",
      " ", "t", "h", "e", " ", "f", "o", "l", "l", "o", "w", "i", "n", "g", " ", "m",
      "e", "e", "t", "i", "n", "g", " ", "t", "r", "a", "n", "s", "c", "r", "i", "p",
      "t", ":">>

\* line 91
UserIntroZh ==
    <<"U+8ACB", "U+6839", "U+64DA", "U+4EE5", "U+4E0B", "U+6703", "U+8B70", "U+8A18",
      "U+9304", "U+751F", "U+6210", "U+6458", "U+8981", "U+FF1A">>

\* line 82
AssistantPreambleEn ==
    <<"I", " ", "w", "i", "l", "l", " ", "g", "e", "n", "e", "r", "a", "t", "e", " ",
      "a", " ", "s", "t", "r", "u", "c", "t", "u", "r", "e", "d", " ", "s", "u", "m",
      "m", "a", "r", "y", " ", "o", "f", " ", "t", "h", "e", " ", "m", "e", "e", "t",
      "i", "n", "g", ":">>

\* line 97
AssistantPreambleZh ==
    <<"U+597D", "U+7684", "U+FF0C", "U+6211", "U+5C07", "U+6839", "U+64DA", "U+63D0",
      "U+4F9B", "U+7684", "U+6703", "U+8B70", "U+8A18", "U+9304", "U+751F", "U+6210",
      "U+7D50", "U+69CB", "U+5316", "U+6458", "U+8981", "U+FF1A">>

\* a variant that always takes the English template
PromptTextEnglishTemplate(t, l) ==
    ImStart \o RoleSystem \o <<"\n">> \o SystemPromptEn \o <<"\n">> \o ImEnd
    \o <<"\n", "\n">>
    \o ImStart \o RoleUser \o <<"\n">>
    \o (IF l = "en" THEN UserIntroEn ELSE UserIntroZh) \o <<"\n", "\n">>
    \o t \o <<"\n">> \o ImEnd
    \o <<"\n", "\n">>
    \o ImStart \o RoleAssistant \o <<"\n">>
    \o (IF l = "en" THEN AssistantPreambleEn ELSE AssistantPreambleZh) \o <<"\n", "\n">>

\* lines 71-98: the f-string of build_prompt for transcription t of language l
PromptText(t, l) ==
    ImStart \o RoleSystem \o <<"\n">> \o system_prompts(l) \o <<"\n">> \o ImEnd
    \o <<"\n", "\n">>
    \o ImStart \o RoleUser \o <<"\n">>
    \o (IF l = "en" THEN UserIntroEn ELSE UserIntroZh) \o <<"\n", "\n">>
    \o t \o <<"\n">> \o ImEnd
    \o <<"\n", "\n">>
    \o ImStart \o RoleAssistant \o <<"\n">>
    \o (IF l = "en" THEN AssistantPreambleEn ELSE AssistantPreambleZh) \o <<"\n", "\n">>

MaxTextLen == 10
MaxDetectCalls == 2

\* transcripts: every mix of a Latin and a Chinese character up to MaxTextLen,
\* the characters at the edges of U+4E00..U+9FFF, Chinese punctuation, and a
\* transcript that itself holds the delimiter
Transcripts ==
    SeqsUpTo({"a", "U+6458"}, MaxTextLen)
    \cup { <<"U+4DFF">>, <<"U+4E00">>, <<"U+9FFF">>, <<"U+A000">>, <<"U+3002", "a">>,
           <<"U+6458", "U+3002", " ", "a", "\n", "b">> }
    \cup { <<"a", "\n">> \o ImStart \o RoleUser \o <<"\n", "U+6458">> }

BuildIdle ==
    /\ transcription = <<>>
    /\ build_pc = "idle"
    /\ prompt = <<>>
    /\ detect_results = <<>>

BuildInit ==
    /\ transcription \in Transcripts
    /\ build_pc = "call"
    /\ prompt = <<>>
    /\ detect_results = <<>>

\* a call _detect_language(transcription) (lines 38-53)
DetectLanguage ==
    /\ build_pc # "idle"
    /\ Len(detect_results) < MaxDetectCalls
    /\ detect_results' = Append(detect_results, detect_language(transcription))
    /\ UNCHANGED <<transcription, build_pc, prompt>>

\* build_prompt(transcription) (lines 55-103); an exception is logged and raised again
BuildPrompt ==
    /\ build_pc = "call"
    /\ LET l == detect_language(transcription) IN
        IF l = "ZeroDivisionError"
        THEN /\ build_pc' = "raised"
             /\ UNCHANGED prompt
        ELSE /\ build_pc' = "returned"
             /\ prompt' = PromptText(transcription, l)
    /\ UNCHANGED <<transcription, detect_results>>

-----------------------------------------------------------------------------
(* Properties of _detect_language and build_prompt                         *)

\* the number of characters of t in U+4E00..U+9FFF
ChineseCount(t) == Len(SelectSeq(t, IsChinese))

\* the language the ratio of Chinese characters gives: "zh" above 3/10
LanguageByRatio(t) == IF 10 * ChineseCount(t) > 3 * Len(t) THEN "zh" ELSE "en"

\* C13: for a non-empty text every call of _detect_language returns "zh" when the
\* ratio of characters in U+4E00..U+9FFF is above 0.3 and "en" when it is at most
\* 0.3, the same at every call.
C13_DetectByRatio ==
    transcription # <<>> =>
        \A k \in 1..Len(detect_results) : detect_results[k] = LanguageByRatio(transcription)

C13_Witness ==
    /\ Len(transcription) = 10
    /\ ChineseCount(transcription) = 3
    /\ detect_results = <<"en", "en">>

\* C14: _detect_language applied to the empty text returns "en".
C14_EmptyTextIsEnglish ==
    transcription = <<>> => \A k \in 1..Len(detect_results) : detect_results[k] = "en"

\* s is a section of role r: it opens with <|im_start|>r and a newline
IsSection(s, r) == StartsWith(s, ImStart \o r \o <<"\n">>)

\* C15: for a non-empty transcript the prompt is a system section, a user section
\* and an assistant section in this order, each opened by <|im_start|>; the
\* system section holds the template of the detected language and the user
\* section the transcript.
C15_PromptHasThreeSections ==
    (build_pc = "returned" /\ transcription # <<>>) =>
        \E i, j \in 2..Len(prompt) :
            /\ i < j
            /\ IsSection(SubSeq(prompt, 1, i - 1), RoleSystem)
            /\ IsSection(SubSeq(prompt, i, j - 1), RoleUser)
            /\ IsSection(SubSeq(prompt, j, Len(prompt)), RoleAssistant)
            /\ Contains(SubSeq(prompt, 1, i - 1),
                        IF LanguageByRatio(transcription) = "zh"
                        THEN SystemPromptZh ELSE SystemPromptEn)
            /\ ~Contains(SubSeq(prompt, 1, i - 1),
                         IF LanguageByRatio(transcription) = "zh"
                         THEN SystemPromptEn ELSE SystemPromptZh)
            /\ Contains(SubSeq(prompt, i, j - 1), transcription)
            /\ ~Contains(SubSeq(prompt, j, Len(prompt)), ImStart \o RoleUser)

C15_Witness ==
    /\ build_pc = "returned"
    /\ transcription = <<"a", "U+6458", "a", "U+6458">>
    /\ StartsWith(prompt, ImStart \o RoleSystem \o <<"\n">> \o SystemPromptZh)
    /\ Contains(prompt, UserIntroZh \o <<"\n", "\n">> \o transcription \o <<"\n">> \o ImEnd)

-----------------------------------------------------------------------------
(* LocalLLM._process_chunk_parallel (summarizer/local_llm.py)              *)

\* the opening of the prompt (line 208)
ChunkPromptOpening ==
    <<"Y", "o", "u", " ", "a", "r", "e", " ", "a", " ", "h", "e", "l", "p", "f", "u",
      "l", " ", "A", "I", " ", "a", "s", "s", "i", "s", "t", "a", "n", "t", ".", " ",
      "P", "l", "e", "a", "s", "e", " ", "p", "r", "o", "c", "e", "s", "s", " ", "t",
      "h", "e", " ", "f", "o", "l", "l", "o", "w", "i", "n", "g", " ", "t", "e", "x",
      "t">>

\* line 208
FirstPart ==
    <<"(", "t", "h", "i", "s", " ", "i", "s", " ", "t", "h", "e", " ", "f", "i", "r",
      "s", "t", " ", "p", "a", "r", "t", ")">>

\* line 208
LastPart ==
    <<"(", "t", "h", "i", "s", " ", "i", "s", " ", "t", "h", "e", " ", "l", "a", "s",
      "t", " ", "p", "a", "r", "t", ")">>

\* lines 212-213
ChunkPromptTask ==
    <<"P", "l", "e", "a", "s", "e", " ", "p", "r", "o", "v", "i", "d", "e", " ", "a",
      " ", "c", "o", "n", "c", "i", "s", "e", " ", "s", "u", "m", "m", "a", "r", "y",
      " ", "o", "f", " ", "t", "h", "i", "s", " ", "s", "e", "c", "t", "i", "o", "n",
      ".", " ", "F", "o", "c", "u", "s", " ", "o", "n", " ", "t", "h", "e", " ", "k",
      "e", "y", " ", "p", "o", "i", "n", "t", "s", " ", "a", "n", "d", " ", "m", "a",
      "i", "n", " ", "i", "d", "e", "a", "s", ".", "\n", "I", "M", "P", "O", "R", "T",
      "A", "N", "T", ":", " ">>

\* line 214
UseOnlyEnglish ==
    <<"1", ".", " ", "U", "s", "e", " ", "o", "n", "l", "y", " ", "E", "n", "g", "l",
      "i", "s", "h", " ", "f", "o", "r", " ", "t", "h", "e", " ", "s", "u", "m", "m",
      "a", "r", "y">>

\* lines 215-218
ChunkPromptRules ==
    <<"2", ".", " ", "F", "o", "r", "m", "a", "t", " ", "t", "h", "e", " ", "o", "u",
      "t", "p", "u", "t", " ", "a", "s", " ", "a", " ", "c", "l", "e", "a", "n", ",",
      " ", "n", "u", "m", "b", "e", "r", "e", "d", " ", "l", "i", "s", "t", "\n", "3",
      ".", " ", "E", "a", "c", "h", " ", "p", "o", "i", "n", "t", " ", "s", "h", "o",
      "u", "l", "d", " ", "b", "e", " ", "a", " ", "c", "o", "m", "p", "l", "e", "t",
      "e", " ", "s", "e", "n", "t", "e", "n", "c", "e", "\n", "4", ".", " ", "A", "v",
      "o", "i", "d", " ", "a", "n", "y", " ", "s", "p", "e", "c", "i", "a", "l", " ",
      "c", "h", "a", "r", "a", "c", "t", "e", "r", "s", " ", "o", "r", " ", "f", "o",
      "r", "m", "a", "t", "t", "i", "n", "g", " ", "m", "a", "r", "k", "e", "r", "s",
      "\n", "5", ".", " ", "K", "e", "e", "p", " ", "t", "h", "e", " ", "s", "u", "m",
      "m", "a", "r", "y", " ", "f", "o", "c", "u", "s", "e", "d", " ", "a", "n", "d",
      " ", "c", "o", "n", "c", "i", "s", "e">>

\* the text before {chunk} (lines 208-209): is_first is tested before is_last
ChunkOpening(is_first, is_last) ==
    ChunkPromptOpening
    \o (IF is_first THEN <<" ">> \o FirstPart
        ELSE IF is_last THEN <<" ">> \o LastPart ELSE <<>>)
    \o <<":", "\n", "\n">>

\* the text after {chunk} (lines 211-218)
ChunkClosing ==
    <<"\n", "\n">> \o ChunkPromptTask \o <<"\n">> \o UseOnlyEnglish \o <<"\n">> \o ChunkPromptRules

\* the f-string of lines 208-218
ChunkPromptText(c, is_first, is_last) == ChunkOpening(is_first, is_last) \o c \o ChunkClosing

\* what _generate_with_prompt(prompt) may return: None or the model's text
ChunkSummaries == {None, Some(<<"1", ".", " ", "a">>)}

ChunkIdle ==
    /\ chunk_info = [chunk_index |-> 0, chunk |-> <<>>, is_first |-> FALSE, is_last |-> FALSE]
    /\ chunk_pc = "idle"
    /\ chunk_prompt = <<>>
    /\ chunk_result = <<>>

\* chunk_info as generate_summary builds it (line 307): (i, chunk, i == 0, i == len(chunks) - 1)
ChunkInfos ==
    { [chunk_index |-> i, chunk |-> c, is_first |-> (i = 0), is_last |-> last] :
        i \in 0..(MaxChunks - 1), c \in Transcripts, last \in BOOLEAN }

ChunkInit ==
    /\ chunk_info \in ChunkInfos
    /\ chunk_pc = "call"
    /\ chunk_prompt = <<>>
    /\ chunk_result = <<>>

\* _process_chunk_parallel(chunk_info) (lines 197-221); s is what
\* _generate_with_prompt returned
ProcessChunkParallel(s) ==
    /\ chunk_pc = "call"
    /\ chunk_prompt' = ChunkPromptText(chunk_info.chunk, chunk_info.is_first, chunk_info.is_last)
    /\ chunk_result' = <<chunk_info.chunk_index, s>>
    /\ chunk_pc' = "returned"
    /\ UNCHANGED chunk_info

-----------------------------------------------------------------------------
(* Properties of _process_chunk_parallel                                   *)

\* the instructions of the prompt: the prompt without the chunk it carries
ChunkInstructions ==
    LET o == Len(ChunkOpening(chunk_info.is_first, chunk_info.is_last)) IN
    SubSeq(chunk_prompt, 1, o)
    \o SubSeq(chunk_prompt, o + Len(chunk_info.chunk) + 1, Len(chunk_prompt))

\* C27: the prompt sent for a chunk carries the instructions of the language
\* detected for that chunk: for a chunk detected as Chinese the Chinese
\* instruction template and no instruction to answer in English, for a chunk
\* detected as English the instruction to answer in English
C27_ChunkPromptInChunkLanguage ==
    (chunk_pc = "returned" /\ chunk_info.chunk # <<>>) =>
        /\ detect_language(chunk_info.chunk) = "zh" =>
              /\ Contains(ChunkInstructions, SystemPromptZh)
              /\ ~Contains(ChunkInstructions, UseOnlyEnglish)
        /\ detect_language(chunk_info.chunk) = "en" =>
              /\ Contains(ChunkInstructions, UseOnlyEnglish)
              /\ ~Contains(ChunkInstructions, SystemPromptZh)

-----------------------------------------------------------------------------
(* OutputFormatter (summarizer/output_formatter.py)                        *)

\* Python values: a str, a list, a dict (its items are pairs, in insertion
\* order) and None, all of one record shape
PyStr(chars) == [t |-> "str", s |-> chars, items |-> <<>>]
PyList(xs)   == [t |-> "list", s |-> <<>>, items |-> xs]
PyPair(k, v) == [t |-> "pair", s |-> k, items |-> <<v>>]
PyDict(kvs)  == [t |-> "dict", s |-> <<>>, items |-> kvs]
PyNone       == [t |-> "NoneType", s |-> <<>>, items |-> <<>>]

\* field in summary
HasKey(d, k) == \E i \in 1..Len(d.items) : d.items[i].s = k

\* summary[field]
Get(d, k) == d.items[CHOOSE i \in 1..Len(d.items) : d.items[i].s = k].items[1]

K_summary      == <<"s","u","m","m","a","r","y">>
K_conclusion   == <<"c","o","n","c","l","u","s","i","o","n">>
K_action_items == <<"a","c","t","i","o","n","_","i","t","e","m","s">>
K_metadata     == <<"m","e","t","a","d","a","t","a">>
K_source_url   == <<"s","o","u","r","c","e","_","u","r","l">>
K_generated_at == <<"g","e","n","e","r","a","t","e","d","_","a","t">>
K_version      == <<"v","e","r","s","i","o","n">>
K_content      == <<"c","o","n","t","e","n","t">>

required_fields == {K_summary, K_conclusion, K_action_items}

\* a variant that does not check the type of the conclusion
validate_summary_no_conclusion_check(d) ==
    IF ~(\A field \in required_fields : HasKey(d, field)) THEN FALSE
    ELSE IF Get(d, K_summary).t # "list" THEN FALSE
    ELSE IF Get(d, K_action_items).t # "list" THEN FALSE
    ELSE TRUE

\* validate_summary (lines 68-96)
validate_summary(d) ==
    IF ~(\A field \in required_fields : HasKey(d, field)) THEN FALSE
    ELSE IF Get(d, K_summary).t # "list" THEN FALSE
    ELSE IF Get(d, K_conclusion).t # "str" THEN FALSE
    ELSE IF Get(d, K_action_items).t # "list" THEN FALSE
    ELSE TRUE

Digits == <<"0", "1", "2", "3", "4", "5", "6", "7", "8", "9">>

TwoDigits(n) == <<Digits[(n \div 10) + 1], Digits[(n % 10) + 1]>>

\* datetime.now().isoformat() at second c of 2026-11-05 12:00
IsoFormat(c) ==
    <<"2","0","2","6","-","1","1","-","0","5","T","1","2",":","0","0",":">> \o TwoDigits(c)

\* datetime.now().strftime("%Y%m%d_%H%M%S") at second c of 2026-11-05 12:00
Timestamp(c) ==
    <<"2","0","2","6","1","1","0","5","_","1","2","0","0">> \o TwoDigits(c)

\* format_summary (lines 32-39) at time c
format_summary(d, u, c) ==
    PyDict(<< PyPair(K_metadata,
                     PyDict(<< PyPair(K_source_url, PyStr(u)),
                               PyPair(K_generated_at, PyStr(IsoFormat(c))),
                               PyPair(K_version, PyStr(<<"1", ".", "0">>)) >>)),
              PyPair(K_content, d) >>)

\* os.path.join(dir, name)
PathJoin(dir, name) ==
    IF dir = <<>> \/ Last(dir) = "/" THEN dir \o name ELSE dir \o <<"/">> \o name

\* lines 53-55 at time c
FilePath(dir, c) ==
    PathJoin(dir, <<"s","u","m","m","a","r","y","_">> \o Timestamp(c)
                  \o <<".","j","s","o","n">>)

\* json: how a character of a str is written (ensure_ascii=False)
EscapeChar(c) ==
    CASE c = "\"" -> <<"\\", "\"">>
      [] c = "\\" -> <<"\\", "\\">>
      [] c = "\n" -> <<"\\", "n">>
      [] c = "\r" -> <<"\\", "r">>
      [] c = "\t" -> <<"\\", "t">>
      [] OTHER -> <<c>>

RECURSIVE Escape(_)
Escape(chars) == IF chars = <<>> THEN <<>> ELSE EscapeChar(Head(chars)) \o Escape(Tail(chars))

DumpStr(chars) == <<"\"">> \o Escape(chars) \o <<"\"">>

\* indent=2: the blanks that open a line at nesting level n
Indent(n) == [i \in 1..(2 * n) |-> " "]

RECURSIVE Dump(_, _)
RECURSIVE DumpItems(_, _)
\* json.dump(value, f, ensure_ascii=False, indent=2): the text written
Dump(v, level) ==
    IF v.t = "str" THEN DumpStr(v.s)
    ELSE IF v.t = "pair" THEN DumpStr(v.s) \o <<":", " ">> \o Dump(v.items[1], level)
    ELSE IF v.t = "NoneType" THEN <<"n", "u", "l", "l">>
    ELSE LET open  == IF v.t = "list" THEN "[" ELSE "{"
             close == IF v.t = "list" THEN "]" ELSE "}"
         IN IF v.items = <<>> THEN <<open, close>>
            ELSE <<open, "\n">> \o DumpItems(v.items, level + 1)
                 \o <<"\n">> \o Indent(level) \o <<close>>

DumpItems(items, level) ==
    Indent(level) \o Dump(Head(items), level)
    \o (IF Tail(items) = <<>> THEN <<>> ELSE <<",", "\n">> \o DumpItems(Tail(items), level))

\* json.load: the index of the first character at or after p that is not white space
RECURSIVE SkipSpace(_, _)
SkipSpace(src, p) ==
    IF p <= Len(src) /\ IsSpace(src[p]) THEN SkipSpace(src, p + 1) ELSE p

Unescape(c) ==
    CASE c = "n" -> "\n"
      [] c = "r" -> "\r"
      [] c = "t" -> "\t"
      [] OTHER -> c

RECURSIVE LoadChars(_, _)
\* the characters of a string whose opening quote is just before p:
\* [v: the characters, p: the index after the closing quote]
LoadChars(src, p) ==
    IF src[p] = "\"" THEN [v |-> <<>>, p |-> p + 1]
    ELSE IF src[p] = "\\"
         THEN LET rest == LoadChars(src, p + 2)
              IN [v |-> <<Unescape(src[p + 1])>> \o rest.v, p |-> rest.p]
         ELSE LET rest == LoadChars(src, p + 1)
              IN [v |-> <<src[p]>> \o rest.v, p |-> rest.p]

RECURSIVE LoadValue(_, _)
RECURSIVE LoadElements(_, _, _)
\* json.load: the value that starts at or after p: [v: the value, p: the index after it]
LoadValue(src, p) ==
    LET q == SkipSpace(src, p) IN
    IF src[q] = "\"" THEN
        LET str == LoadChars(src, q + 1) IN [v |-> PyStr(str.v), p |-> str.p]
    ELSE IF src[q] = "n" THEN [v |-> PyNone, p |-> q + 4]
    ELSE LET kind == IF src[q] = "[" THEN "list" ELSE "dict"
             first == SkipSpace(src, q + 1)
         IN IF src[first] \in {"]", "}"}
            THEN [v |-> [t |-> kind, s |-> <<>>, items |-> <<>>], p |-> first + 1]
            ELSE LET els == LoadElements(src, first, kind)
                 IN [v |-> [t |-> kind, s |-> <<>>, items |-> els.v], p |-> els.p]

\* the elements of a list, or the pairs of a dict, from p to the closing bracket
LoadElements(src, p, kind) ==
    LET q == SkipSpace(src, p)
        key == LoadChars(src, q + 1)
        el == IF kind = "list" THEN LoadValue(src, q)
              ELSE LET val == LoadValue(src, SkipSpace(src, key.p) + 1)
                   IN [v |-> PyPair(key.v, val.v), p |-> val.p]
        after == SkipSpace(src, el.p)
    IN IF src[after] = ","
       THEN LET rest == LoadElements(src, after + 1, kind)
            IN [v |-> <<el.v>> \o rest.v, p |-> rest.p]
       ELSE [v |-> <<el.v>>, p |-> after + 1]

\* json.load(f)
Load(src) == LoadValue(src, 1).v

\* a variant that writes the content without the metadata
FileContentOnly(formatted) == Dump(Get(formatted, K_content), 0)

\* line 59: what json.dump writes to the file
FileContent(formatted) == Dump(formatted, 0)

MaxPoints == 1
MaxClock == 2

\* texts of summary points, conclusions and action items
StringPool ==
    { <<"a">>,
      <<"\"", "b", "\\">>,
      <<"U+8A0E", "\n", "\t">> }

Urls == { <<"h", ":", "/", "/", "x">>, <<"x", "?", "q", "=", "\"", "1", "\"">> }

OutputDirs == { <<".", "/", "o", "u", "t">>, <<"/", "t", "m", "p", "/">> }

StrLists == { [i \in 1..Len(l) |-> PyStr(l[i])] : l \in SeqsUpTo(StringPool, MaxPoints) }

\* the records of the data model: lists of str and a str
SummaryRecords ==
    { PyDict(<< PyPair(K_summary, PyList(sm)),
                PyPair(K_conclusion, PyStr(c)),
                PyPair(K_action_items, PyList(ai)) >>) :
        sm \in StrLists, c \in StringPool \cup {<<>>}, ai \in StrLists }

\* what a field can hold in a dict that need not be a record: a list, a str, None
FieldValues == { PyList(<<>>), PyList(<<PyStr(<<"a">>)>>), PyStr(<<"a">>), PyNone }

OptionalField(k) == {<<>>} \cup { <<PyPair(k, v)>> : v \in FieldValues }

\* dicts with each of the three fields absent or of any of the types, with or
\* without a field that is not required
AnyDicts ==
    { PyDict(a \o b \o c \o x) :
        a \in OptionalField(K_summary),
        b \in OptionalField(K_conclusion),
        c \in OptionalField(K_action_items),
        x \in { <<>>, <<PyPair(K_version, PyStr(<<"1">>))>> } }

NoFiles == [p \in {} |-> <<>>]

OutIdle ==
    /\ record = PyNone
    /\ url = <<>>
    /\ output_dir = <<>>
    /\ clock = 0
    /\ out_pc = "idle"
    /\ valid = FALSE
    /\ formatted_summary = PyNone
    /\ filepath = <<>>
    /\ files = NoFiles
    /\ saved_content = PyNone

OutInit ==
    /\ record \in SummaryRecords \cup AnyDicts
    /\ url \in Urls
    /\ output_dir \in OutputDirs
    /\ clock = 0
    /\ out_pc = "validate"
    /\ valid = FALSE
    /\ formatted_summary = PyNone
    /\ filepath = <<>>
    /\ files = NoFiles
    /\ saved_content = PyNone

\* time passes
Tick ==
    /\ out_pc \in {"validate", "format", "save", "read"}
    /\ clock < MaxClock
    /\ clock' = clock + 1
    /\ UNCHANGED <<record, url, output_dir, out_pc, valid, formatted_summary,
                   filepath, files, saved_content>>

\* main.py lines 85-87: validate_summary; an invalid summary ends the request
Validate ==
    /\ out_pc = "validate"
    /\ valid' = validate_summary(record)
    /\ out_pc' = IF validate_summary(record) THEN "format" ELSE "rejected"
    /\ UNCHANGED <<record, url, output_dir, clock, formatted_summary, filepath,
                   files, saved_content>>

\* main.py line 91: format_summary
Format ==
    /\ out_pc = "format"
    /\ formatted_summary' = format_summary(record, url, clock)
    /\ out_pc' = "save"
    /\ UNCHANGED <<record, url, output_dir, clock, valid, filepath, files,
                   saved_content>>

\* main.py line 92: save_summary (lines 51-62); open(filepath, 'w') creates or
\* truncates the file
Save ==
    /\ out_pc = "save"
    /\ filepath' = FilePath(output_dir, clock)
    /\ files' = [p \in DOMAIN files \cup {FilePath(output_dir, clock)} |->
                    IF p = FilePath(output_dir, clock)
                    THEN FileContent(formatted_summary)
                    ELSE files[p]]
    /\ out_pc' = "read"
    /\ UNCHANGED <<record, url, output_dir, clock, valid, formatted_summary,
                   saved_content>>

\* tests/test_output_formatter.py lines 58-59: the file is read back
ReadBack ==
    /\ out_pc = "read"
    /\ saved_content' = Load(files[filepath])
    /\ out_pc' = "done"
    /\ UNCHANGED <<record, url, output_dir, clock, valid, formatted_summary,
                   filepath, files>>

MaxSaves == 2

\* no save_summary call is recorded
SaveIdle == save_log = <<>>

\* the records of successive requests
RequestRecords ==
    { PyDict(<< PyPair(K_summary, PyList(<<PyStr(c)>>)),
                PyPair(K_conclusion, PyStr(c)),
                PyPair(K_action_items, PyList(<<>>)) >>) : c \in {<<"a">>, <<"b">>} }

\* the first request on an empty output directory
RequestInit ==
    /\ record \in RequestRecords
    /\ url \in Urls
    /\ output_dir \in OutputDirs
    /\ clock = 0
    /\ out_pc = "validate"
    /\ valid = FALSE
    /\ formatted_summary = PyNone
    /\ filepath = <<>>
    /\ files = NoFiles
    /\ saved_content = PyNone

\* save_summary has returned; the next request, on the same output directory,
\* brings its record (main.py lines 84-92 again)
NextRequest ==
    /\ out_pc = "read"
    /\ Len(save_log) < MaxSaves
    /\ record' \in RequestRecords
    /\ out_pc' = "validate"
    /\ UNCHANGED <<url, output_dir, clock, valid, formatted_summary, filepath, files,
                   saved_content>>

\* history of Save: the path returned and the content written
LogSave == save_log' = Append(save_log, [path |-> filepath', content |-> files'[filepath']])

-----------------------------------------------------------------------------
(* Properties of OutputFormatter                                           *)

\* the record holds all three fields, summary and action_items lists and
\* conclusion a str
WellTyped(d) ==
    /\ \E i \in 1..Len(d.items) : d.items[i].s = K_summary /\ d.items[i].items[1].t = "list"
    /\ \E i \in 1..Len(d.items) : d.items[i].s = K_conclusion /\ d.items[i].items[1].t = "str"
    /\ \E i \in 1..Len(d.items) :
            d.items[i].s = K_action_items /\ d.items[i].items[1].t = "list"

\* C9: validate_summary returns True exactly when the record holds the three
\* fields with summary and action_items lists and conclusion a str, and False
\* otherwise.
C9_ValidateIffWellTyped ==
    out_pc \in {"format", "rejected"} => (valid <=> WellTyped(record))

C9_Witness ==
    /\ out_pc = "rejected"
    /\ ~valid
    /\ HasKey(record, K_summary) /\ HasKey(record, K_conclusion)
    /\ HasKey(record, K_action_items)
    /\ Get(record, K_summary).t = "list"
    /\ Get(record, K_action_items).t = "list"
    /\ Get(record, K_conclusion).t = "list"

\* path is inside dir: dir, a separator, and a file name without separator
InsideDir(path, dir) ==
    /\ StartsWith(path, dir)
    /\ Len(path) > Len(dir)
    /\ LET name == LStrip(Drop(path, Len(dir) + 1), {"/"}) IN
        /\ name # <<>>
        /\ \A i \in 1..Len(name) : name[i] # "/"
        /\ Last(dir) = "/" \/ path[Len(dir) + 1] = "/"

EndsWith(path, suffix) ==
    /\ Len(suffix) <= Len(path)
    /\ SubSeq(path, Len(path) - Len(suffix) + 1, Len(path)) = suffix

\* C10: after save_summary(format_summary(record, url)) a file exists at the
\* returned path, the path is inside the output directory and ends in .json,
\* and the JSON read back from it equals format_summary(record, url).
C10_SaveRoundTrip ==
    out_pc = "done" =>
        /\ filepath \in DOMAIN files
        /\ InsideDir(filepath, output_dir)
        /\ EndsWith(filepath, <<".", "j", "s", "o", "n">>)
        /\ saved_content = formatted_summary
        /\ Get(saved_content, K_content) = record
        /\ Get(Get(saved_content, K_metadata), K_source_url) = PyStr(url)

C10_Witness ==
    /\ out_pc = "done"
    /\ saved_content = formatted_summary
    /\ Get(Get(saved_content, K_content), K_conclusion) = PyStr(<<"\"", "b", "\\">>)
    /\ Get(Get(saved_content, K_content), K_summary) = PyList(<<PyStr(<<"U+8A0E", "\n", "\t">>)>>)
    /\ url = <<"x", "?", "q", "=", "\"", "1", "\"">>
    /\ filepath = <<"/","t","m","p","/","s","u","m","m","a","r","y","_",
                    "2","0","2","6","1","1","0","5","_","1","2","0","0","0","1",
                    ".","j","s","o","n">>

\* C26: any two save_summary calls returned different paths, and the file of
\* every call still holds what that call wrote.
C26_SavedFilesAreKept ==
    /\ \A i, j \in 1..Len(save_log) : i # j => save_log[i].path # save_log[j].path
    /\ \A i \in 1..Len(save_log) :
            /\ save_log[i].path \in DOMAIN files
            /\ files[save_log[i].path] = save_log[i].content

-----------------------------------------------------------------------------
(* main (main.py)                                                          *)

\* response.split('\n')
RECURSIVE SplitLines(_)
SplitLines(t) ==
    IF \E i \in 1..Len(t) : t[i] = "\n"
    THEN LET i == CHOOSE i \in 1..Len(t) : t[i] = "\n" /\ \A j \in 1..(i - 1) : t[j] # "\n"
         IN <<SubSeq(t, 1, i - 1)>> \o SplitLines(Drop(t, i + 1))
    ELSE <<t>>

RECURSIVE ScanAll(_, _, _)
\* the for loop of lines 141-170 over the lines ls
ScanAll(ls, l, st) ==
    IF ls = <<>> THEN st ELSE ScanAll(Tail(ls), l, ScanStep(Head(ls), l, st))

\* parse_llm_response(t) as a whole (lines 105-180): the record, or the
\* exception raised again by the except clause
parse_llm_response(t) ==
    LET l == detect_language(t) IN
    IF l = "ZeroDivisionError" THEN [raised |-> TRUE, summary |-> EmptySummary]
    ELSE [raised |-> FALSE,
          summary |-> Fallback(ScanAll(SelectNonBlank(SplitLines(t)), l,
                                       [section |-> "None", summary |-> EmptySummary,
                                        stored |-> FALSE]).summary)]

\* the dict parse_llm_response returns, as a Python value
ToPy(d) ==
    PyDict(<< PyPair(K_summary, PyList([i \in 1..Len(d.summary) |-> PyStr(d.summary[i])])),
              PyPair(K_conclusion, PyStr(d.conclusion)),
              PyPair(K_action_items,
                     PyList([i \in 1..Len(d.action_items) |-> PyStr(d.action_items[i])])) >>)

\* what generate_summary can return: None, the empty text, a model answer
GenerateResults ==
    { None, Some(<<>>) } \cup { Some(Text(r)) : r \in StructuredResponses }

\* the process has not ended
NotExited == -1

MainIdle ==
    /\ main_pc = "idle"
    /\ raw_summary = None
    /\ exit_code = NotExited
    /\ stage_log = <<>>

\* lines 51-56: the components are constructed
MainInit ==
    /\ main_pc = "initialize"
    /\ raw_summary = None
    /\ exit_code = NotExited
    /\ stage_log = <<>>

\* line 56: OutputFormatter() at the start of a request for args.url
OutConstructed ==
    /\ record = PyNone
    /\ url \in Urls
    /\ output_dir \in OutputDirs
    /\ clock = 0
    /\ out_pc = "idle"
    /\ valid = FALSE
    /\ formatted_summary = PyNone
    /\ filepath = <<>>
    /\ files = NoFiles
    /\ saved_content = PyNone

\* lines 58-62: local_llm.initialize(); False ends the request
MainInitialize(ok) ==
    /\ main_pc = "initialize"
    /\ stage_log' = Append(stage_log, "initialize")
    /\ main_pc' = IF ok THEN "extract" ELSE "exited"
    /\ exit_code' = IF ok THEN exit_code ELSE 1
    /\ UNCHANGED <<raw_summary, outVars>>

\* lines 64-69: html_extractor.process_url(args.url); no transcription ends the request
MainExtract(ok) ==
    /\ main_pc = "extract"
    /\ stage_log' = Append(stage_log, "process_url")
    /\ main_pc' = IF ok THEN "build" ELSE "exited"
    /\ exit_code' = IF ok THEN exit_code ELSE 1
    /\ UNCHANGED <<raw_summary, outVars>>

\* lines 71-73: build_prompt on a non-empty transcription
MainBuildPrompt ==
    /\ main_pc = "build"
    /\ stage_log' = Append(stage_log, "build_prompt")
    /\ main_pc' = "generate"
    /\ UNCHANGED <<raw_summary, exit_code, outVars>>

\* a variant that goes on to parse whatever generate_summary returned
MainGenerateUnchecked(r) ==
    /\ main_pc = "generate"
    /\ stage_log' = Append(stage_log, "generate_summary")
    /\ raw_summary' = r
    /\ main_pc' = "parse"
    /\ UNCHANGED <<exit_code, outVars>>

\* lines 75-80: generate_summary returns r; a falsy result ends the request
MainGenerate(r) ==
    /\ main_pc = "generate"
    /\ stage_log' = Append(stage_log, "generate_summary")
    /\ raw_summary' = r
    /\ main_pc' = IF Truthy(r) THEN "parse" ELSE "exited"
    /\ exit_code' = IF Truthy(r) THEN exit_code ELSE 1
    /\ UNCHANGED outVars

\* line 84: parse_llm_response(raw_summary); an exception (None has no split,
\* the empty text divides by zero) reaches the except clause of lines 96-98
MainParse ==
    /\ main_pc = "parse"
    /\ stage_log' = Append(stage_log, "parse_llm_response")
    /\ IF raw_summary.is_none \/ parse_llm_response(raw_summary.str).raised
       THEN /\ main_pc' = "exited"
            /\ exit_code' = 1
            /\ UNCHANGED outVars
       ELSE /\ main_pc' = "output"
            /\ record' = ToPy(parse_llm_response(raw_summary.str).summary)
            /\ out_pc' = "validate"
            /\ UNCHANGED <<exit_code, url, output_dir, clock, valid, formatted_summary,
                           filepath, files, saved_content>>
    /\ UNCHANGED raw_summary

\* lines 85-87: validate_summary is called; an invalid summary ends the request
MainValidate ==
    /\ main_pc = "output"
    /\ stage_log' = Append(stage_log, "validate_summary")
    /\ main_pc' = IF validate_summary(record) THEN "output" ELSE "exited"
    /\ exit_code' = IF validate_summary(record) THEN exit_code ELSE 1
    /\ UNCHANGED raw_summary

\* lines 91 and 92: format_summary or save_summary is called
MainOutput(stage) ==
    /\ main_pc = "output"
    /\ stage_log' = Append(stage_log, stage)
    /\ UNCHANGED <<main_pc, raw_summary, exit_code>>

\* line 94: the summary is saved; main returns
MainReturn ==
    /\ main_pc = "output"
    /\ out_pc = "read"
    /\ main_pc' = "exited"
    /\ exit_code' = 0
    /\ UNCHANGED <<raw_summary, stage_log, outVars>>

-----------------------------------------------------------------------------
(* Properties of main                                                      *)

Stages ==
    <<"initialize", "process_url", "build_prompt", "generate_summary",
      "parse_llm_response", "validate_summary", "format_summary", "save_summary">>

\* the position of a stage in Stages
StageNo(stage) == CHOOSE i \in 1..Len(Stages) : Stages[i] = stage

Called(stage) == \E i \in 1..Len(stage_log) : stage_log[i] = stage

\* C25: the stages are called in the order generate_summary, parse_llm_response,
\* validate_summary, format_summary, save_summary, each at most once; the
\* response is parsed only if inference returned a non-empty text; a file exists
\* only if inference returned a non-empty text and validate_summary returned
\* True; and a request that ended after a failure ended with exit code 1 and no
\* file.
C25_PipelineOrder ==
    /\ \A i \in 1..Len(stage_log) : stage_log[i] = Stages[i]
    /\ Called("parse_llm_response") => Truthy(raw_summary)
    /\ Called("format_summary") => valid
    /\ files # NoFiles =>
          /\ Truthy(raw_summary) /\ valid
          /\ Called("save_summary")
    /\ (main_pc = "exited" /\ ~Called("save_summary")) =>
          (exit_code = 1 /\ files = NoFiles)
    /\ (main_pc = "exited" /\ Called("save_summary")) => exit_code = 0

C25_Witness ==
    /\ main_pc = "exited"
    /\ exit_code = 0
    /\ stage_log = Stages
    /\ DOMAIN files = {filepath}
    /\ Len(Get(record, K_summary).items) = 2
    /\ Len(Get(record, K_action_items).items) = 1

-----------------------------------------------------------------------------
(* Specifications                                                          *)

notParseVars == <<splitVars, genVars, llmVars, buildVars, mainVars, outVars, saveVars, chunkVars>>
notSplitVars == <<parseVars, genVars, llmVars, buildVars, mainVars, outVars, saveVars, chunkVars>>
notGenVars == <<parseVars, splitVars, llmVars, buildVars, mainVars, outVars, saveVars, chunkVars>>
notCancelVars == <<parseVars, splitVars, genVars, buildVars, mainVars, outVars, saveVars, chunkVars>>
notOutVars == <<parseVars, splitVars, genVars, llmVars, buildVars, mainVars, saveVars, chunkVars>>
notSaveVars == <<parseVars, splitVars, genVars, llmVars, buildVars, mainVars, chunkVars>>
notMainVars == <<parseVars, splitVars, genVars, llmVars, buildVars, saveVars, chunkVars>>
notBuildVars == <<parseVars, splitVars, genVars, llmVars, mainVars, outVars, saveVars, chunkVars>>

\* parse_llm_response applied to a response
InitParse == ParseInit /\ SplitIdle /\ GenIdle /\ LLMIdle /\ BuildIdle /\ MainIdle /\ OutIdle /\ SaveIdle /\ ChunkIdle

ParseNext ==
    \/ ParseStart /\ UNCHANGED notParseVars
    \/ ScanLine /\ UNCHANGED notParseVars
    \/ ParseReturn /\ UNCHANGED notParseVars

SpecParse == InitParse /\ [][ParseNext]_vars

\* _split_into_chunks applied to a text
InitChunk == SplitInit /\ ParseIdle /\ GenIdle /\ LLMIdle /\ BuildIdle /\ MainIdle /\ OutIdle /\ SaveIdle /\ ChunkIdle

SplitNext ==
    \/ SplitStart /\ UNCHANGED notSplitVars
    \/ SplitStep /\ UNCHANGED notSplitVars
    \/ SplitReturn /\ UNCHANGED notSplitVars

SpecChunk == InitChunk /\ [][SplitNext]_vars

\* generate_summary on a prompt of n_chunks chunks
InitGen == GenInit /\ LLMInit /\ ParseIdle /\ SplitIdle /\ BuildIdle /\ MainIdle /\ OutIdle /\ SaveIdle /\ ChunkIdle

GenNext ==
    \/ GenSubmit /\ UNCHANGED notGenVars
    \/ \E i \in 1..n_chunks : WorkerStart(i) /\ UNCHANGED notGenVars
    \/ \E i \in 1..n_chunks, o \in Outcomes : WorkerFinish(i, o) /\ UNCHANGED notGenVars
    \/ \E i \in 1..n_chunks : GenCollect(i) /\ UNCHANGED notGenVars
    \/ GenReturnNone /\ UNCHANGED notGenVars
    \/ GenReturn /\ UNCHANGED notGenVars

SpecGen == InitGen /\ [][GenNext]_vars

\* generate_summary with cancel_generation called from another thread
CancelNext ==
    \/ GenNext
    \/ cancel_generation /\ UNCHANGED notCancelVars

SpecCancel == InitGen /\ [][CancelNext]_vars

\* generate_summary under the scheduling the code has: the calling thread and the
\* workers of the executor keep taking steps; nothing makes an external process
\* exit, so WorkerFinish carries no fairness
GenFairness ==
    /\ WF_vars(GenSubmit /\ UNCHANGED notGenVars)
    /\ WF_vars(\E i \in 1..n_chunks : WorkerStart(i) /\ UNCHANGED notGenVars)
    /\ WF_vars(\E i \in 1..n_chunks : GenCollect(i) /\ UNCHANGED notGenVars)
    /\ WF_vars(GenReturnNone /\ UNCHANGED notGenVars)
    /\ WF_vars(GenReturn /\ UNCHANGED notGenVars)

SpecGenLive == InitGen /\ [][GenNext]_vars /\ GenFairness

\* _detect_language and build_prompt applied to a transcript
InitBuild == BuildInit /\ ParseIdle /\ SplitIdle /\ GenIdle /\ LLMIdle /\ MainIdle /\ OutIdle /\ SaveIdle /\ ChunkIdle

BuildNext ==
    \/ DetectLanguage /\ UNCHANGED notBuildVars
    \/ BuildPrompt /\ UNCHANGED notBuildVars

SpecBuild == InitBuild /\ [][BuildNext]_vars

\* _process_chunk_parallel applied to a chunk
notChunkVars == <<parseVars, splitVars, genVars, llmVars, buildVars, mainVars, outVars, saveVars>>

InitChunkPrompt == ChunkInit /\ ParseIdle /\ SplitIdle /\ GenIdle /\ LLMIdle /\ BuildIdle /\ MainIdle /\ OutIdle /\ SaveIdle

ChunkPromptNext ==
    \E s \in ChunkSummaries : ProcessChunkParallel(s) /\ UNCHANGED notChunkVars

SpecChunkPrompt == InitChunkPrompt /\ [][ChunkPromptNext]_vars

\* a request of main: the stages up to the parse, then validate, format and save
InitMain == MainInit /\ OutConstructed /\ SaveIdle /\ ParseIdle /\ SplitIdle /\ GenIdle /\ LLMIdle /\ BuildIdle /\ ChunkIdle

MainNext ==
    \/ \E ok \in BOOLEAN : MainInitialize(ok) /\ UNCHANGED notMainVars
    \/ \E ok \in BOOLEAN : MainExtract(ok) /\ UNCHANGED notMainVars
    \/ MainBuildPrompt /\ UNCHANGED notMainVars
    \/ \E r \in GenerateResults : MainGenerate(r) /\ UNCHANGED notMainVars
    \/ MainParse /\ UNCHANGED notMainVars
    \/ Validate /\ MainValidate /\ UNCHANGED notMainVars
    \/ Format /\ MainOutput("format_summary") /\ UNCHANGED notMainVars
    \/ Save /\ MainOutput("save_summary") /\ UNCHANGED notMainVars
    \/ MainReturn /\ UNCHANGED notMainVars

SpecMain == InitMain /\ [][MainNext]_vars

\* successive requests that validate, format and save into one output directory
InitSaves == RequestInit /\ SaveIdle /\ ParseIdle /\ SplitIdle /\ GenIdle /\ LLMIdle /\ BuildIdle /\ MainIdle /\ ChunkIdle

SavesNext ==
    \/ Tick /\ UNCHANGED save_log /\ UNCHANGED notSaveVars
    \/ Validate /\ UNCHANGED save_log /\ UNCHANGED notSaveVars
    \/ Format /\ UNCHANGED save_log /\ UNCHANGED notSaveVars
    \/ Save /\ LogSave /\ UNCHANGED notSaveVars
    \/ NextRequest /\ UNCHANGED save_log /\ UNCHANGED notSaveVars

SpecSaves == InitSaves /\ [][SavesNext]_vars

\* validate_summary, format_summary, save_summary on a dict, then the file read back
InitOut == OutInit /\ SaveIdle /\ ParseIdle /\ SplitIdle /\ GenIdle /\ LLMIdle /\ BuildIdle /\ MainIdle /\ ChunkIdle

OutNext ==
    \/ Tick /\ UNCHANGED notOutVars
    \/ Validate /\ UNCHANGED notOutVars
    \/ Format /\ UNCHANGED notOutVars
    \/ Save /\ UNCHANGED notOutVars
    \/ ReadBack /\ UNCHANGED notOutVars

SpecOut == InitOut /\ [][OutNext]_vars

=============================================================================
